---------------------------- MODULE Spec2Model ----------------------------
(***************************************************************************)
(* A model of the b-field of samuela/rust-bfield:                          *)
(*   src/src/bfield_member.rs   one member: bit vector + marker parameters *)
(*   src/src/bfield.rs          the cascade of members                     *)
(*                                                                         *)
(* A key is represented by its murmurhash3_x64_128 digest (h0, h1): every  *)
(* operation reads a key only through that digest.  Words are WordBits     *)
(* wide instead of 64, with the same wrapping arithmetic.  A u128 marker   *)
(* is the set of its set bit indices; a bit vector is the set of the       *)
(* indices of its set bits.                                                *)
(***************************************************************************)
EXTENDS Integers, Sequences, FiniteSets, TLC

VARIABLES
    members,   \* BField.members: sequence of [size, bits, params]
    focus,     \* observer: the key whose history is recorded
    hist,      \* observer: what has been done to the focus key so far
    destructive, \* observer: has mask_or_insert / force_insert ever run
    last,      \* observer: the last call, when it was a call on the focus key
    written,   \* observer: the members a marker was written to for the focus key
    build,     \* observer: the progress of a pass-by-pass build
    fs         \* the file system: the member files, and the outcome of from_file

vars == <<members, focus, hist, destructive, last, written, build, fs>>

\* what only the specifications SpecTrace, SpecBuild and SpecFiles advance
aux == <<written, build, fs>>

-----------------------------------------------------------------------------
(* Bounds of the model *)

\* width of a hash word (usize is 64 bits in the program)
WordBits == 2

\* the keys the callers of the cascade use have digest words 0 .. MaxDigest
MaxDigest == 1

\* size in bits of the primary member's bit vector
Size == 5

\* largest n_hashes and marker_width of the members SpecFresh creates
MaxHashes == 2
MaxWidth == 3

\* largest n_secondaries the create calls of SpecFiles and SpecSizes pass
MaxMembers == 3

\* largest number of keys a pass-by-pass build of SpecBuild inserts
MaxBuild == 3

-----------------------------------------------------------------------------
(* Arguments of BField::create / BFieldMember::in_memory used by Init *)

CreateArgs ==
    [ n_hashes            |-> 2,        \* k
      marker_width        |-> 3,        \* nu
      n_marker_bits       |-> 2,        \* kappa
      secondary_scaledown |-> <<4, 5>>, \* beta, as a fraction
      max_scaledown       |-> <<1, 2>>, \* as a fraction
      n_secondaries       |-> 2 ]

Word == 2 ^ WordBits

\* every digest murmurhash3_x64_128 can produce
Hashes == (0 .. Word - 1) \X (0 .. Word - 1)

\* the keys the calls of Spec, SpecMember, SpecTrace and SpecBuild draw from
Keys == (0 .. MaxDigest) \X (0 .. MaxDigest)

\* murmurhash3_x64_128(key, 0): the key is carried as its digest
Murmur(key) == key

-----------------------------------------------------------------------------
(* mmap_bitvec::combinatorial *)

RECURSIVE Choose(_, _)
Choose(n, k) ==
    IF k = 0 THEN 1
    ELSE IF n < k THEN 0
    ELSE Choose(n - 1, k - 1) + Choose(n - 1, k)

SetMax(S) == CHOOSE x \in S : \A y \in S : y <= x

\* the value-th k-subset in colexicographic order (combinadic)
RECURSIVE Combinadic(_, _)
Combinadic(value, k) ==
    IF k = 0 THEN {}
    ELSE LET c == SetMax({ d \in (k - 1) .. (k - 1 + value) : Choose(d, k) <= value })
         IN  {c} \cup Combinadic(value - Choose(c, k), k - 1)

\* the marker tables rank reads: for every k the markers of the values that
\* fit a marker of at most MaxWidth bits
MarkerTables ==
    [ k \in 0 .. MaxWidth |->
        [ value \in 0 .. Choose(MaxWidth, k) - 1 |-> Combinadic(value, k) ] ]

\* rank(value, k)
Rank(value, k) == MarkerTables[k][value]

\* unrank(marker): sum of choose(c_i, i) over the set bits c_1 < c_2 < ...
RECURSIVE Unrank(_)
Unrank(marker) ==
    IF marker = {} THEN 0
    ELSE LET c == SetMax(marker)
         IN  Choose(c, Cardinality(marker)) + Unrank(marker \ {c})

-----------------------------------------------------------------------------
(* mmap_bitvec::BitVector: bit lo of the range is the most significant bit *)

GetRange(bits, lo, width) ==
    { j \in 0 .. width - 1 : (lo + (width - 1 - j)) \in bits }

SetRange(bits, lo, width, x) ==
    bits \cup { lo + (width - 1 - j) : j \in (x \cap (0 .. width - 1)) }

-----------------------------------------------------------------------------
(* bfield_member.rs *)

Indeterminate == [kind |-> "Indeterminate", val |-> 0]
LookupSome(v) == [kind |-> "Some", val |-> v]
LookupNone    == [kind |-> "None", val |-> 0]

AlignBits(b, len) == b

\* mutant: the modulus is the whole size, without room for the marker
MarkerPosNoMargin(hash, n, total_size, marker_size) ==
    ((hash[1] + ((n * hash[2]) % Word)) % Word) % total_size

MarkerPos(hash, n, total_size, marker_size) ==
    ((hash[1] + ((n * hash[2]) % Word)) % Word) % (total_size - marker_size)

InMemory(size, n_hashes, marker_width, n_marker_bits) ==
    [ size   |-> size,
      bits   |-> {},
      params |-> [ n_hashes      |-> n_hashes,
                   marker_width  |-> marker_width,
                   n_marker_bits |-> n_marker_bits ] ]

\* mutant: each window is overwritten with the marker instead of OR-ed with it
RECURSIVE InsertRawOverwrite(_, _, _, _)
InsertRawOverwrite(m, key, marker, marker_ix) ==
    IF marker_ix >= m.params.n_hashes THEN m
    ELSE LET marker_width == m.params.marker_width
             pos == MarkerPos(Murmur(key), marker_ix, m.size, marker_width)
         IN  InsertRawOverwrite(
                 [m EXCEPT !.bits = SetRange(@ \ (pos .. pos + marker_width - 1),
                                             pos, marker_width, marker)],
                 key, marker, marker_ix + 1)

RECURSIVE InsertRawFrom(_, _, _, _)
InsertRawFrom(m, key, marker, marker_ix) ==
    IF marker_ix >= m.params.n_hashes THEN m
    ELSE LET marker_width == m.params.marker_width
             pos == MarkerPos(Murmur(key), marker_ix, m.size, marker_width)
             aligned_marker == AlignBits(marker, marker_width)
         IN  InsertRawFrom(
                 [m EXCEPT !.bits = SetRange(@, pos, marker_width, aligned_marker)],
                 key, marker, marker_ix + 1)

\* mutant: the loop over the hashes starts at 1 and skips the first window
InsertRawSkipFirst(m, key, marker) == InsertRawFrom(m, key, marker, 1)

InsertRaw(m, key, marker) == InsertRawFrom(m, key, marker, 0)

\* mutant: the value itself is written as the marker, without rank
MemberInsertNoRank(m, key, value) ==
    InsertRaw(m, key, { j \in 0 .. m.params.marker_width - 1 : (value \div (2 ^ j)) % 2 = 1 })

MemberInsert(m, key, value) ==
    InsertRaw(m, key, Rank(value, m.params.n_marker_bits))

RECURSIVE GetRawFrom(_, _, _, _, _)
GetRawFrom(m, key, k, merged_marker, marker_ix) ==
    IF marker_ix >= m.params.n_hashes
    THEN AlignBits(merged_marker, m.params.marker_width)
    ELSE LET marker_width == m.params.marker_width
             pos == MarkerPos(Murmur(key), marker_ix, m.size, marker_width)
             merged == GetRange(m.bits, pos, marker_width) \cap merged_marker
         IN  IF Cardinality(merged) < k THEN {}
             ELSE GetRawFrom(m, key, k, merged, marker_ix + 1)

GetRaw(m, key, k) == GetRawFrom(m, key, k, 0 .. 127, 0)

\* mutant: no Ordering::Greater arm, any marker of at least k bits is decoded
MemberGetNoGreater(m, key) ==
    LET k == m.params.n_marker_bits
        putative_marker == GetRaw(m, key, k)
    IN  IF Cardinality(putative_marker) >= k THEN LookupSome(Unrank(putative_marker))
        ELSE LookupNone

\* mutant: the operands of cmp are swapped, so Less and Greater change places
MemberGetSwapped(m, key) ==
    LET k == m.params.n_marker_bits
        putative_marker == GetRaw(m, key, k)
    IN  IF Cardinality(putative_marker) < k THEN Indeterminate
        ELSE IF Cardinality(putative_marker) = k THEN LookupSome(Unrank(putative_marker))
        ELSE LookupNone

MemberGet(m, key) ==
    LET k == m.params.n_marker_bits
        putative_marker == GetRaw(m, key, k)
    IN  IF Cardinality(putative_marker) > k THEN Indeterminate
        ELSE IF Cardinality(putative_marker) = k THEN LookupSome(Unrank(putative_marker))
        ELSE LookupNone


\* mutant: the loop body never runs and the existing marker is written back
MaskSearchNone(existing_marker, new_marker, pos, k) == existing_marker

\* the while loop of mask_or_insert: the first marker over existing_marker
\* with one more bit, trying bit 0, 1, 2, ...
RECURSIVE MaskSearch(_, _, _, _)
MaskSearch(existing_marker, new_marker, pos, k) ==
    IF Cardinality(new_marker) = k
    THEN MaskSearch(existing_marker, existing_marker \cup {pos}, pos + 1, k)
    ELSE new_marker

\* mutant: the masking arm forgets its insert_raw
MaskOrInsertNoWrite(m, key, value) ==
    LET correct_marker == Rank(value, m.params.n_marker_bits)
        k == m.params.n_marker_bits
        existing_marker == GetRaw(m, key, k)
    IN  IF Cardinality(existing_marker) > k
        THEN [m |-> m, ret |-> FALSE]
        ELSE IF Cardinality(existing_marker) = k
        THEN [m |-> m, ret |-> existing_marker = correct_marker]
        ELSE [m |-> InsertRaw(m, key, correct_marker), ret |-> TRUE]

\* mutant: the Equal arm has no early return for the correct marker
MaskOrInsertNoEarlyReturn(m, key, value) ==
    LET correct_marker == Rank(value, m.params.n_marker_bits)
        k == m.params.n_marker_bits
        existing_marker == GetRaw(m, key, k)
    IN  IF Cardinality(existing_marker) > k
        THEN [m |-> m, ret |-> FALSE]
        ELSE IF Cardinality(existing_marker) = k
        THEN [m   |-> InsertRaw(m, key,
                          MaskSearch(existing_marker, existing_marker, 0, k)),
              ret |-> FALSE]
        ELSE [m |-> InsertRaw(m, key, correct_marker), ret |-> TRUE]

\* mask_or_insert: the member afterwards and the value returned
MaskOrInsert(m, key, value) ==
    LET correct_marker == Rank(value, m.params.n_marker_bits)
        k == m.params.n_marker_bits
        existing_marker == GetRaw(m, key, k)
    IN  IF Cardinality(existing_marker) > k
        THEN [m |-> m, ret |-> FALSE]
        ELSE IF Cardinality(existing_marker) = k
        THEN IF existing_marker = correct_marker
             THEN [m |-> m, ret |-> TRUE]
             ELSE [m   |-> InsertRaw(m, key,
                               MaskSearch(existing_marker, existing_marker, 0, k)),
                   ret |-> FALSE]
        ELSE [m |-> InsertRaw(m, key, correct_marker), ret |-> TRUE]

-----------------------------------------------------------------------------
(* bfield.rs *)

OptionSome(v) == [kind |-> "Some", val |-> v]
OptionNone    == [kind |-> "None", val |-> 0]

Max(a, b) == IF a >= b THEN a ELSE b

\* f64::max(cur_size * beta, size * max_beta) as usize, in exact arithmetic
NextSize(cur_size, size, beta, max_beta) ==
    Max((cur_size * beta[1]) \div beta[2], (size * max_beta[1]) \div max_beta[2])

RECURSIVE CreateFrom(_, _, _, _, _)
CreateFrom(size, args, n, cur_size, ms) ==
    IF n >= args.n_secondaries THEN ms
    ELSE CreateFrom(size, args, n + 1,
             NextSize(cur_size, size, args.secondary_scaledown, args.max_scaledown),
             Append(ms, InMemory(cur_size, args.n_hashes, args.marker_width,
                                 args.n_marker_bits)))

Create(size, args) == CreateFrom(size, args, 0, size, <<>>)

\* mutant: the loop has no break and masks or inserts in every member
RECURSIVE ForceInsertNoBreak(_, _, _, _)
ForceInsertNoBreak(ms, key, value, i) ==
    IF i > Len(ms) THEN [ms |-> ms, broke |-> FALSE]
    ELSE ForceInsertNoBreak([ms EXCEPT ![i] = MaskOrInsert(ms[i], key, value).m],
                            key, value, i + 1)

\* mutant: the condition of the break is negated, the loop ends at the first
\* member whose mask_or_insert returns false
RECURSIVE ForceInsertBreakOnFalse(_, _, _, _)
ForceInsertBreakOnFalse(ms, key, value, i) ==
    IF i > Len(ms) THEN [ms |-> ms, broke |-> FALSE]
    ELSE LET r == MaskOrInsert(ms[i], key, value)
             ms2 == [ms EXCEPT ![i] = r.m]
         IN  IF ~r.ret THEN [ms |-> ms2, broke |-> TRUE]
             ELSE ForceInsertBreakOnFalse(ms2, key, value, i + 1)

\* the loop of force_insert: the members afterwards, and whether the loop
\* ended by its break
RECURSIVE ForceInsertFrom(_, _, _, _)
ForceInsertFrom(ms, key, value, i) ==
    IF i > Len(ms) THEN [ms |-> ms, broke |-> FALSE]
    ELSE LET r == MaskOrInsert(ms[i], key, value)
             ms2 == [ms EXCEPT ![i] = r.m]
         IN  IF r.ret THEN [ms |-> ms2, broke |-> TRUE]
             ELSE ForceInsertFrom(ms2, key, value, i + 1)

ForceInsert(ms, key, value) == ForceInsertFrom(ms, key, value, 1)

\* mutant: the pre-check continues on None as well and refuses only on Some
RECURSIVE InsertRefusedOnlySome(_, _, _, _)
InsertRefusedOnlySome(ms, key, pass, i) ==
    IF i > pass THEN FALSE
    ELSE IF MemberGet(ms[i], key).kind # "Some"
         THEN InsertRefusedOnlySome(ms, key, pass, i + 1)
         ELSE TRUE

\* mutant: the arms of the pre-check are exchanged: Indeterminate refuses, and
\* Some and None continue
RECURSIVE InsertRefusedInverted(_, _, _, _)
InsertRefusedInverted(ms, key, pass, i) ==
    IF i > pass THEN FALSE
    ELSE IF MemberGet(ms[i], key) # Indeterminate
         THEN InsertRefusedInverted(ms, key, pass, i + 1)
         ELSE TRUE

\* the pre-check loop of insert over members[..pass]: TRUE when some earlier
\* member is not Indeterminate for the key
RECURSIVE InsertRefusedFrom(_, _, _, _)
InsertRefusedFrom(ms, key, pass, i) ==
    IF i > pass THEN FALSE
    ELSE IF MemberGet(ms[i], key) = Indeterminate
         THEN InsertRefusedFrom(ms, key, pass, i + 1)
         ELSE TRUE

\* mutant: no pre-check of the earlier members
BFieldInsertNoCheck(ms, key, value, pass) ==
    [ms  |-> [ms EXCEPT ![pass + 1] = MemberInsert(@, key, value)],
     ret |-> TRUE]

\* insert(key, value, pass), pass counted from 0
BFieldInsert(ms, key, value, pass) ==
    IF pass > 0 /\ InsertRefusedFrom(ms, key, pass, 1)
    THEN [ms |-> ms, ret |-> FALSE]
    ELSE [ms  |-> [ms EXCEPT ![pass + 1] = MemberInsert(@, key, value)],
          ret |-> TRUE]

\* mutant: Indeterminate is answered with None instead of continuing
BFieldGetNoContinue(ms, key, i) ==
    IF i > Len(ms) THEN OptionNone
    ELSE LET r == MemberGet(ms[i], key)
         IN  IF r.kind = "Some" THEN OptionSome(r.val) ELSE OptionNone

RECURSIVE BFieldGetFrom(_, _, _)
BFieldGetFrom(ms, key, i) ==
    IF i > Len(ms) THEN OptionNone
    ELSE LET r == MemberGet(ms[i], key)
         IN  IF r = Indeterminate THEN BFieldGetFrom(ms, key, i + 1)
             ELSE IF r.kind = "Some" THEN OptionSome(r.val)
             ELSE OptionNone

\* mutant: the walk starts at the first secondary and skips the primary
BFieldGetSkipPrimary(ms, key) == BFieldGetFrom(ms, key, 2)

BFieldGet(ms, key) == BFieldGetFrom(ms, key, 1)

-----------------------------------------------------------------------------
(* The state machine *)

\* the values the marker codec can encode: value < C(nu, kappa)
Values ==
    0 .. Choose(members[1].params.marker_width, members[1].params.n_marker_bits) - 1

Passes == 0 .. Len(members) - 1

NoCall == [op |-> "none", value |-> 0, pass |-> 0, ok |-> FALSE, res |-> OptionNone]

Call(op, value, pass, ok, res) ==
    [op |-> op, value |-> value, pass |-> pass, ok |-> ok, res |-> res]

Fresh     == [kind |-> "fresh", val |-> 0]
Ins(v)    == [kind |-> "ins", val |-> v]
Masked(v) == [kind |-> "masked", val |-> v]
Remasked(v) == [kind |-> "remasked", val |-> v]
Dirty     == [kind |-> "dirty", val |-> 0]

\* the focus key's history after an insert of value into the first member
HistInsert(h, value) ==
    IF h.kind = "fresh" THEN Ins(value)
    ELSE IF h.kind = "ins" /\ h.val = value THEN h
    ELSE IF h.kind \in {"masked", "remasked"} THEN h
    ELSE Dirty

\* the focus key's history after mask_or_insert / force_insert of value
HistMask(h, value) ==
    IF h.kind = "ins" /\ h.val # value THEN Masked(h.val)
    ELSE IF h.kind \in {"masked", "remasked"} THEN Remasked(h.val)
    ELSE Dirty

\* no pass-by-pass build is being observed
NoBuild == [phase |-> 0, todo |-> {}, val |-> <<>>]

\* no member file exists and from_file was not called
NoFiles == [files |-> {}, created |-> <<>>, opened |-> <<>>, result |-> "none"]

ObserverInit ==
    /\ focus \in Keys
    /\ hist = Fresh
    /\ destructive = FALSE
    /\ last = NoCall
    /\ written = {}
    /\ build = NoBuild
    /\ fs = NoFiles

Init ==
    /\ members = Create(Size, CreateArgs)
    /\ ObserverInit

Insert(key, value, pass) ==
    LET r == BFieldInsert(members, key, value, pass)
    IN  /\ members' = r.ms
        /\ hist' = IF key # focus \/ ~r.ret THEN hist
                   ELSE IF pass = 0 THEN HistInsert(hist, value)
                   ELSE IF hist.kind \in {"masked", "remasked"} THEN hist ELSE Dirty
        /\ last' = IF key = focus THEN Call("insert", value, pass, r.ret, OptionNone)
                   ELSE NoCall
        /\ UNCHANGED <<focus, destructive, aux>>

Force(key, value) ==
    LET r == ForceInsert(members, key, value)
    IN  /\ members' = r.ms
        /\ hist' = IF key = focus THEN HistMask(hist, value) ELSE hist
        /\ last' = IF key = focus
                   THEN Call("force_insert", value, 0, r.broke, OptionNone)
                   ELSE NoCall
        /\ destructive' = TRUE
        /\ UNCHANGED <<focus, aux>>

Get(key) ==
    /\ last' = IF key = focus THEN Call("get", 0, 0, FALSE, BFieldGet(members, key))
               ELSE NoCall
    /\ UNCHANGED <<members, focus, hist, destructive, aux>>

Next ==
    \/ \E key \in Keys, value \in Values, pass \in Passes : Insert(key, value, pass)
    \/ \E key \in Keys, value \in Values : Force(key, value)
    \/ \E key \in Keys : Get(key)

Spec == Init /\ [][Next]_vars

-----------------------------------------------------------------------------
(* One member on its own: BFieldMember::in_memory, insert, mask_or_insert, get *)

InitMember ==
    /\ members = << InMemory(Size, CreateArgs.n_hashes, CreateArgs.marker_width,
                             CreateArgs.n_marker_bits) >>
    /\ ObserverInit

MInsert(key, value) ==
    /\ members' = [members EXCEPT ![1] = MemberInsert(@, key, value)]
    /\ hist' = IF key = focus THEN HistInsert(hist, value) ELSE hist
    /\ last' = IF key = focus THEN Call("insert", value, 0, TRUE, OptionNone)
               ELSE NoCall
    /\ UNCHANGED <<focus, destructive, aux>>

MMaskOrInsert(key, value) ==
    LET r == MaskOrInsert(members[1], key, value)
    IN  /\ members' = [members EXCEPT ![1] = r.m]
        /\ hist' = IF key = focus THEN HistMask(hist, value) ELSE hist
        /\ last' = IF key = focus
                   THEN Call("mask_or_insert", value, 0, r.ret, OptionNone)
                   ELSE NoCall
        /\ destructive' = TRUE
        /\ UNCHANGED <<focus, aux>>

MGet(key) ==
    /\ last' = IF key = focus THEN Call("get", 0, 0, FALSE, MemberGet(members[1], key))
               ELSE NoCall
    /\ UNCHANGED <<members, focus, hist, destructive, aux>>

NextMember ==
    \/ \E key \in Keys, value \in Values : MInsert(key, value)
    \/ \E key \in Keys, value \in Values : MMaskOrInsert(key, value)
    \/ \E key \in Keys : MGet(key)

SpecMember == InitMember /\ [][NextMember]_vars

-----------------------------------------------------------------------------
(* A freshly created member of any admissible shape, and its first insert *)

MemberConfigs ==
    { c \in [ size          : 2 .. Size,
              n_hashes      : 1 .. MaxHashes,
              marker_width  : 1 .. MaxWidth,
              n_marker_bits : 0 .. MaxWidth - 1 ] :
        /\ c.n_marker_bits < c.marker_width
        /\ c.size > c.marker_width }

InitFresh ==
    /\ \E c \in MemberConfigs :
           members = << InMemory(c.size, c.n_hashes, c.marker_width, c.n_marker_bits) >>
    /\ focus \in Hashes
    /\ hist = Fresh
    /\ destructive = FALSE
    /\ last = NoCall
    /\ written = {}
    /\ build = NoBuild
    /\ fs = NoFiles

FirstInsert(value) ==
    /\ hist = Fresh
    /\ MInsert(focus, value)

NextFresh ==
    \/ \E value \in Values : FirstInsert(value)
    \/ MGet(focus)

SpecFresh == InitFresh /\ [][NextFresh]_vars

-----------------------------------------------------------------------------
(* The cascade with the record of where the focus key was written; last.res
   is the primary's verdict for the focus key before the last call *)

\* does mask_or_insert(key, value) reach one of its insert_raw calls in m
MaskWrites(m, key, value) ==
    LET correct_marker == Rank(value, m.params.n_marker_bits)
        k == m.params.n_marker_bits
        existing_marker == GetRaw(m, key, k)
    IN  \/ Cardinality(existing_marker) < k
        \/ Cardinality(existing_marker) = k /\ existing_marker # correct_marker

\* the members force_insert(key, value) writes a marker to
RECURSIVE ForceWrittenFrom(_, _, _, _)
ForceWrittenFrom(ms, key, value, i) ==
    IF i > Len(ms) THEN {}
    ELSE LET r == MaskOrInsert(ms[i], key, value)
             here == IF MaskWrites(ms[i], key, value) THEN {i} ELSE {}
         IN  IF r.ret THEN here
             ELSE here \cup ForceWrittenFrom(ms, key, value, i + 1)

TraceInsert(key, value, pass) ==
    LET r == BFieldInsert(members, key, value, pass)
    IN  /\ members' = r.ms
        /\ written' = IF key = focus /\ r.ret THEN written \cup {pass + 1}
                      ELSE written
        /\ last' = Call("insert", 0, 0, FALSE, MemberGet(members[1], focus))
        /\ UNCHANGED <<focus, hist, destructive, build, fs>>

TraceForce(key, value) ==
    /\ members' = ForceInsert(members, key, value).ms
    /\ written' = IF key = focus
                  THEN written \cup ForceWrittenFrom(members, key, value, 1)
                  ELSE written
    /\ last' = Call("force_insert", 0, 0, FALSE, MemberGet(members[1], focus))
    /\ UNCHANGED <<focus, hist, destructive, build, fs>>

NextTrace ==
    \/ \E key \in Keys, value \in Values, pass \in Passes : TraceInsert(key, value, pass)
    \/ \E key \in Keys, value \in Values : TraceForce(key, value)

SpecTrace == Init /\ [][NextTrace]_vars

-----------------------------------------------------------------------------
(* A build that runs pass by pass: build.val gives every key of the build its
   one value, build.phase is the pass being run and build.todo the keys whose
   insert at this pass is still to come; the build is over when build.phase
   has reached the number of members *)

Builds ==
    UNION { [ks -> 0 .. Choose(CreateArgs.marker_width, CreateArgs.n_marker_bits) - 1] :
              ks \in { ks \in SUBSET Keys : ks # {} /\ Cardinality(ks) <= MaxBuild } }

InitBuild ==
    /\ members = Create(Size, CreateArgs)
    /\ \E val \in Builds : build = [phase |-> 0, todo |-> DOMAIN val, val |-> val]
    /\ focus = <<0, 0>>
    /\ hist = Fresh
    /\ destructive = FALSE
    /\ last = NoCall
    /\ written = {}
    /\ fs = NoFiles

BuildInsert(key) ==
    /\ build.phase < Len(members)
    /\ key \in build.todo
    /\ members' = BFieldInsert(members, key, build.val[key], build.phase).ms
    /\ build' = IF build.todo = {key}
                THEN [build EXCEPT !.phase = @ + 1,
                                   !.todo = IF build.phase + 1 < Len(members)
                                            THEN DOMAIN build.val ELSE {}]
                ELSE [build EXCEPT !.todo = @ \ {key}]
    /\ UNCHANGED <<focus, hist, destructive, last, written, fs>>

NextBuild == \E key \in Keys : BuildInsert(key)

SpecBuild == InitBuild /\ [][NextBuild]_vars

-----------------------------------------------------------------------------
(* BField::create and BField::from_file on the file system.  A path is its
   parent directories and the dot-separated parts of its file name; fs.files
   holds [path, member] for every member file, under its resolved path. *)

\* the base paths the callers pass
Paths ==
    [ dir  : {<<>>, <<".">>, <<"foo">>},
      name : {<<"bar">>, <<"bar", "ext">>, <<"bar", "tar", "gz">>} ]

\* Path::file_stem: the file name without its last extension, and no parent
FileStem(path) ==
    [ dir  |-> <<>>,
      name |-> IF Len(path.name) > 1 THEN SubSeq(path.name, 1, Len(path.name) - 1)
               ELSE path.name ]

\* Path::with_extension: the last extension of the file name replaced
WithExtension(path, extension) ==
    [path EXCEPT !.name = FileStem(path).name \o extension]

\* Path::with_file_name: the last component replaced
WithFileName(path, file_name) ==
    [dir |-> path.dir, name |-> file_name.name]

\* format!("{}.bfd", n)
BfdExtension(n) == <<ToString(n), "bfd">>

\* the file the operating system reaches through a path: "." names no directory
Resolve(path) ==
    [path EXCEPT !.dir = SelectSeq(@, LAMBDA c : c # ".")]

\* Path::exists
Exists(files, path) == \E f \in files : f.path = Resolve(path)

\* the path create gives member n
CreatePath(filename, n) ==
    WithExtension(FileStem(filename), BfdExtension(n))

\* the path from_file looks member n up at
OpenPath(filename, n) ==
    WithFileName(filename, WithExtension(FileStem(filename), BfdExtension(n)))

\* the loop of from_file: the members loaded from n on
RECURSIVE FromFileFrom(_, _, _, _)
FromFileFrom(files, filename, n, ms) ==
    LET member_filename == OpenPath(filename, n)
    IN  IF ~Exists(files, member_filename) THEN ms
        ELSE LET f == CHOOSE f \in files : f.path = Resolve(member_filename)
             IN  FromFileFrom(files, filename, n + 1, Append(ms, f.member))

\* the scaledown factors the callers pass, as fractions
Scaledowns == {<<1, 4>>, <<1, 2>>, <<4, 5>>, <<1, 1>>}

\* the arguments of create within its preconditions:
\* kappa < nu, 0 < max_scaledown <= secondary_scaledown <= 1, n_secondaries >= 1
CreateConfigs ==
    { c \in [ n_hashes            : {CreateArgs.n_hashes},
              marker_width        : 1 .. MaxWidth,
              n_marker_bits       : 0 .. MaxWidth - 1,
              secondary_scaledown : Scaledowns,
              max_scaledown       : Scaledowns,
              n_secondaries       : 1 .. MaxMembers ] :
        /\ c.n_marker_bits < c.marker_width
        /\ c.max_scaledown[1] * c.secondary_scaledown[2]
               <= c.secondary_scaledown[1] * c.max_scaledown[2] }

FsCreate(filename, size, args) ==
    LET ms == Create(size, args)
    IN  /\ fs.files = {}
        /\ size > args.marker_width
        /\ members' = ms
        /\ fs' = [fs EXCEPT
                    !.files = { [path |-> Resolve(CreatePath(filename, n)), member |-> ms[n + 1]] :
                                 n \in 0 .. args.n_secondaries - 1 },
                    !.created = <<filename, size, args>>]
        /\ UNCHANGED <<focus, hist, destructive, last, written, build>>

FsFromFile(filename) ==
    LET ms == FromFileFrom(fs.files, filename, 0, <<>>)
    IN  /\ members' = ms
        /\ fs' = [fs EXCEPT !.opened = <<filename>>,
                            !.result = IF ms = <<>> THEN "NotFound" ELSE "Ok"]
        /\ UNCHANGED <<focus, hist, destructive, last, written, build>>

\* create with every base path and number of members, then from_file
NextFiles ==
    \/ \E filename \in Paths, n_secondaries \in 1 .. MaxMembers :
           FsCreate(filename, Size, [CreateArgs EXCEPT !.n_secondaries = n_secondaries])
    \/ \E filename \in Paths : FsFromFile(filename)

SpecFiles == Init /\ [][NextFiles]_vars

\* create with every size and every argument record within the preconditions
NextSizes ==
    \E size \in 2 .. Size, args \in CreateConfigs :
        FsCreate([dir |-> <<>>, name |-> <<"bar", "bfd">>], size, args)

SpecSizes == Init /\ [][NextSizes]_vars

-----------------------------------------------------------------------------
(* Claims *)

\* the member as BFieldMember::in_memory leaves it
Emptied(m) == [m EXCEPT !.bits = {}]

\* the k window positions of a key in a member
Windows(m, key) ==
    { MarkerPos(Murmur(key), i, m.size, m.params.marker_width) :
        i \in 0 .. m.params.n_hashes - 1 }

\* C1 as stated: once insert(key, v, 0) has returned true, and only insert
\* calls followed (none of them a later pass of the same key, no force_insert),
\* the cascade's get(key) is Some(v) or None.  The code violates this.
C1_CascadeSoundness ==
    (hist.kind = "ins" /\ ~destructive)
        => BFieldGet(members, focus) \in {OptionSome(hist.val), OptionNone}

\* C1 amended: once insert(key, v, 0) has returned true and no destructive
\* operation has touched key, the primary's verdict for key is Some(v) or
\* Indeterminate, and while it is Some(v) the cascade's get(key) is Some(v);
\* only a primary that is Indeterminate for key lets later members answer.
C1_PrimarySoundness ==
    hist.kind = "ins"
        => LET r0 == MemberGet(members[1], focus)
           IN  \/ r0 = LookupSome(hist.val) /\ BFieldGet(members, focus) = OptionSome(hist.val)
               \/ r0 = Indeterminate

\* C1 witness: key went in at pass 0, other keys went into the primary and the
\* secondary, the primary still reads Some(v) and get(key) answered Some(v)
C1_Witness ==
    /\ hist.kind = "ins" /\ ~destructive
    /\ Len(members) > 1 /\ members[2].bits # {}
    /\ MemberGet(members[1], focus) = LookupSome(hist.val)
    /\ last.op = "get" /\ last.res = OptionSome(hist.val)

\* C2: in one member, a key inserted with v and only with v, and never
\* masked, reads back as Some(v) or Indeterminate whatever else was inserted.
C2_SaturationSoundness ==
    hist.kind = "ins"
        => MemberGet(members[1], focus) \in {Indeterminate, LookupSome(hist.val)}

\* C2 witness: inserts of other keys have saturated the windows of the key
C2_Witness ==
    /\ hist.kind = "ins" /\ ~destructive
    /\ members[1].bits # MemberInsert(Emptied(members[1]), focus, hist.val).bits
    /\ last.op = "get" /\ last.res = Indeterminate

\* C3 as stated: after insert(key, v) into a fresh member, get(key) = Some(v)
\* for every admissible member and every key.  The code violates this.
C3_SingleInsert ==
    hist.kind = "ins" => MemberGet(members[1], focus) = LookupSome(hist.val)

\* C3 amended: after insert(key, v) into a fresh member, get(key) is Some(v)
\* or Indeterminate, and it is Some(v) whenever the windows of the key are
\* pairwise identical or disjoint.
C3_SingleInsertAmended ==
    hist.kind = "ins"
        => LET m == members[1]
               r == MemberGet(m, focus)
               apart == \A p, q \in Windows(m, focus) :
                            p = q \/ p + m.params.marker_width <= q
                                  \/ q + m.params.marker_width <= p
           IN  /\ r \in {LookupSome(hist.val), Indeterminate}
               /\ apart => r = LookupSome(hist.val)

\* C3 witness: the first insert of a key with two distinct windows reads back
C3_Witness ==
    /\ hist.kind = "ins"
    /\ Cardinality(Windows(members[1], focus)) > 1
    /\ last.op = "get" /\ last.res = LookupSome(hist.val)

SetMin(S) == CHOOSE x \in S : \A y \in S : x <= y

\* the bits a marker occupies when written at every window of a key
MarkerImage(m, key, marker) ==
    UNION { { p + (m.params.marker_width - 1 - j) :
                j \in (marker \cap (0 .. m.params.marker_width - 1)) } :
            p \in Windows(m, key) }

\* C4: get(key) leaves the members as they are and answers with the verdict
\* of the first member that is not Indeterminate for key, and with None when
\* every member is Indeterminate.
C4_CascadedLookup ==
    [][ last'.op = "get" =>
          /\ members' = members
          /\ LET det == { i \in 1 .. Len(members) :
                            MemberGet(members[i], focus) # Indeterminate }
             IN  IF det = {} THEN last'.res = OptionNone
                 ELSE last'.res = MemberGet(members[SetMin(det)], focus) ]_vars

\* C4 witness: the primary is Indeterminate for key and get answered with the
\* value the secondary holds
C4_Witness ==
    /\ last.op = "get"
    /\ Len(members) > 1
    /\ MemberGet(members[1], focus) = Indeterminate
    /\ MemberGet(members[2], focus).kind = "Some"
    /\ last.res = MemberGet(members[2], focus)

\* C5: insert(key, value, pass) returns false and changes nothing when some
\* member before pass is not Indeterminate for key; otherwise it returns true,
\* ORs the marker into the windows of member pass, and changes no other member.
C5_InsertPrecheck ==
    [][ last'.op = "insert" =>
          LET pass == last'.pass
              target == members[pass + 1]
              marker == Rank(last'.value, target.params.n_marker_bits)
              resolved == \E i \in 1 .. pass :
                              MemberGet(members[i], focus) # Indeterminate
          IN  IF resolved
              THEN ~last'.ok /\ members' = members
              ELSE /\ last'.ok
                   /\ members' = [members EXCEPT ![pass + 1].bits =
                                      @ \cup MarkerImage(target, focus, marker)] ]_vars

\* C5 witness: an insert at a later pass was refused
C5_Witness ==
    last.op = "insert" /\ last.pass > 0 /\ ~last.ok

\* C6: no call clears a bit of any member: every member's set bits only grow.
C6_MonotoneBits ==
    [][ /\ Len(members') = Len(members)
        /\ \A i \in 1 .. Len(members) :
               /\ members[i].bits \subseteq members'[i].bits
               /\ members'[i].size = members[i].size ]_vars

\* C6 witness: force_insert has masked a key that insert had placed
C6_Witness ==
    /\ last.op = "force_insert"
    /\ hist.kind = "masked"
    /\ MemberGet(members[1], focus) = Indeterminate

\* C7: once insert(key, v) has been followed by mask_or_insert(key, v') with
\* v' # v, get(key) is Indeterminate and every mask_or_insert(key, _) from then
\* on, the first included, returns false.
C7_MaskDegrades ==
    hist.kind \in {"masked", "remasked"}
        => /\ MemberGet(members[1], focus) = Indeterminate
           /\ last.op = "mask_or_insert" => ~last.ok

\* C7 witness: after the masking call, mask_or_insert with the original value
\* was refused
C7_Witness ==
    /\ hist.kind = "remasked"
    /\ last.op = "mask_or_insert" /\ last.value = hist.val /\ ~last.ok

\* C8: right after mask_or_insert(key, v), a second mask_or_insert(key, v)
\* leaves the member as it is.
C8_MaskIdempotent ==
    last.op = "mask_or_insert"
        => MaskOrInsert(members[1], focus, last.value).m = members[1]

\* C8 witness: the first call masked the key
C8_Witness ==
    last.op = "mask_or_insert" /\ hist.kind = "masked"

\* C9 as stated: right after mask_or_insert(key, v), get(key) is Some(v) when
\* the call returned true and Indeterminate when it returned false.  The code
\* violates this.
C9_ReturnContract ==
    last.op = "mask_or_insert"
        => MemberGet(members[1], focus) =
               IF last.ok THEN LookupSome(last.value) ELSE Indeterminate

\* C9 amended: right after mask_or_insert(key, v), get(key) is Indeterminate
\* when the call returned false, and Some(v) or Indeterminate when it returned
\* true.
C9_ReturnContractAmended ==
    last.op = "mask_or_insert"
        => MemberGet(members[1], focus) \in
               IF last.ok THEN {LookupSome(last.value), Indeterminate}
               ELSE {Indeterminate}

\* C9 witness: mask_or_insert returned true in a member that already held
\* bits, and the key reads back
C9_Witness ==
    /\ last.op = "mask_or_insert" /\ last.ok
    /\ members[1].bits # MemberInsert(Emptied(members[1]), focus, last.value).bits
    /\ MemberGet(members[1], focus) = LookupSome(last.value)

\* C10: force_insert(key, v) applies mask_or_insert member by member up to and
\* including the first that returns true and leaves the members after it
\* alone; when none returns true every member is Indeterminate for key
\* afterwards and the cascade's get(key) is None.
C10_ForceExhaustion ==
    [][ last'.op = "force_insert" =>
          LET r(i) == MaskOrInsert(members[i], focus, last'.value)
              acc == { i \in 1 .. Len(members) : r(i).ret }
          IN  IF acc = {}
              THEN /\ ~last'.ok
                   /\ \A i \in 1 .. Len(members) :
                          /\ members'[i] = r(i).m
                          /\ MemberGet(members'[i], focus) = Indeterminate
                   /\ BFieldGet(members', focus) = OptionNone
              ELSE /\ last'.ok
                   /\ members' = [ i \in 1 .. Len(members) |->
                                     IF i <= SetMin(acc) THEN r(i).m ELSE members[i] ] ]_vars

\* C10 witness: no member accepted the forced insert
C10_Witness ==
    /\ last.op = "force_insert" /\ ~last.ok
    /\ \A i \in 1 .. Len(members) : MemberGet(members[i], focus) = Indeterminate

\* C11 as stated: a freshly created member, before any insert, answers None
\* for every key, whatever admissible (n_hashes, marker_width, n_marker_bits)
\* it was created with.  The code violates this when n_marker_bits = 0.
C11_Absence ==
    hist = Fresh => \A key \in Hashes : MemberGet(members[1], key) = LookupNone

\* C11 amended: a freshly created member with n_marker_bits >= 1, before any
\* insert, answers None for every key.
C11_AbsenceAmended ==
    (hist = Fresh /\ members[1].params.n_marker_bits >= 1)
        => \A key \in Hashes : MemberGet(members[1], key) = LookupNone

\* C11 witness: get on a fresh member of several hashes answered None
C11_Witness ==
    /\ hist = Fresh /\ members[1].bits = {}
    /\ members[1].params.n_marker_bits >= 1 /\ members[1].params.n_hashes > 1
    /\ last.op = "get" /\ last.res = LookupNone

\* C12: whenever a member answers None for a key, no later member has ever
\* had a marker written to it for that key, by insert or by force_insert.
C12_EarlyNoneSound ==
    \A i \in 1 .. Len(members) :
        MemberGet(members[i], focus) = LookupNone => \A j \in written : j <= i

\* C12 witness: the key was written to the primary and to the secondary, and
\* the secondary now holds it while the primary is past None
C12_Witness ==
    /\ written = {1, 2}
    /\ MemberGet(members[1], focus) = Indeterminate
    /\ MemberGet(members[2], focus).kind = "Some"

\* C13: in a member with size > nu, for every hash and every i < k the window
\* starts at pos_i >= 0 and ends at pos_i + nu <= size, and so every bit that
\* insert_raw has set lies inside the bit vector.
C13_WindowInRange ==
    LET m == members[1]
    IN  /\ \A key \in Hashes : \A i \in 0 .. m.params.n_hashes - 1 :
               LET pos == MarkerPos(Murmur(key), i, m.size, m.params.marker_width)
               IN  pos >= 0 /\ pos + m.params.marker_width <= m.size
        /\ m.bits \subseteq 0 .. m.size - 1

\* C13 witness: an insert wrote a window at the highest position the modulus
\* allows, in a member where the hash sum wraps to another window as well
C13_Witness ==
    LET m == members[1]
    IN  /\ hist.kind = "ins"
        /\ m.size - m.params.marker_width - 1 \in Windows(m, focus)
        /\ Cardinality(Windows(m, focus)) > 1
        /\ m.size - 2 \in m.bits

\* C14 as stated: from_file(P) after create(P, ..., s, ...) on an empty file
\* system loads exactly the s members create wrote, for every base path P,
\* with or without a parent directory; and from_file is NotFound whenever the
\* file of member 0 is absent.  The code violates this.
C14_PathAgreement ==
    fs.result # "none"
        => /\ (fs.created # <<>> /\ fs.created[1] = fs.opened[1])
                => /\ fs.result = "Ok"
                   /\ Len(members) = fs.created[3].n_secondaries
                   /\ \A n \in 0 .. fs.created[3].n_secondaries - 1 :
                          Resolve(CreatePath(fs.created[1], n))
                              = Resolve(OpenPath(fs.opened[1], n))
           /\ ~Exists(fs.files, OpenPath(fs.opened[1], 0)) => fs.result = "NotFound"

\* C15: for kappa < nu and every v < C(nu, kappa), rank(v, kappa) has exactly
\* kappa bits, all below bit nu, unrank gives v back, and distinct values have
\* distinct markers; so the marker insert writes for v has these properties
\* and get decodes it to v.
C15_CodecRoundTrip ==
    LET m == members[1]
        nu == m.params.marker_width
        kappa == m.params.n_marker_bits
    IN  /\ \A v \in Values :
               LET marker == Rank(v, kappa)
               IN  /\ Cardinality(marker) = kappa
                   /\ marker \subseteq 0 .. nu - 1
                   /\ Unrank(marker) = v
                   /\ \A w \in Values : w # v => Rank(w, kappa) # marker
        /\ (hist.kind = "ins" /\ m.params.n_hashes = 1)
               => LET marker == GetRaw(m, focus, kappa)
                  IN  /\ Cardinality(marker) = kappa
                      /\ marker \subseteq 0 .. nu - 1
                      /\ Unrank(marker) = hist.val
                      /\ MemberGet(m, focus) = LookupSome(hist.val)

\* C15 witness: the largest value of the widest marker went in and was read back
C15_Witness ==
    LET m == members[1]
    IN  /\ m.params.marker_width = MaxWidth /\ m.params.n_marker_bits > 1
        /\ hist.kind = "ins"
        /\ hist.val = Choose(m.params.marker_width, m.params.n_marker_bits) - 1
        /\ last.op = "get" /\ last.res = LookupSome(hist.val)

\* C16: in every member and for every key (the focus key is any key, and the
\* calls are calls on any key), no call takes the verdict back: Indeterminate
\* stays Indeterminate, and Some(v) stays Some(v) or becomes Indeterminate,
\* never None and never Some of another value.
C16_VerdictMonotone ==
    [][ \A i \in 1 .. Len(members) :
            LET before == MemberGet(members[i], focus)
                after == MemberGet(members'[i], focus)
            IN  /\ before = Indeterminate => after = Indeterminate
                /\ before.kind = "Some" => after \in {before, Indeterminate} ]_vars

\* C16 witness: a force_insert has just taken the focus key from Some(v) to
\* Indeterminate in the primary
C16_Witness ==
    /\ last.op = "force_insert"
    /\ last.res.kind = "Some"
    /\ MemberGet(members[1], focus) = Indeterminate

\* C17: when a build has run pass by pass, every key with its one value and
\* without force_insert, get(key) is Some of the key's value for every key of
\* the build, or None and then every member is Indeterminate for the key.
C17_PhasedBuild ==
    build.phase = Len(members)
        => \A key \in DOMAIN build.val :
               LET g == BFieldGet(members, key)
               IN  \/ g = OptionSome(build.val[key])
                   \/ /\ g = OptionNone
                      /\ \A i \in 1 .. Len(members) :
                             MemberGet(members[i], key) = Indeterminate

\* C17 witness: at the end of a build one key is answered by the secondary
\* with its value, and another key, of another value, by the primary
C17_Witness ==
    /\ build.phase = Len(members) /\ Len(members) > 1
    /\ \E key \in DOMAIN build.val :
           /\ MemberGet(members[1], key) = Indeterminate
           /\ MemberGet(members[2], key) = LookupSome(build.val[key])
           /\ BFieldGet(members, key) = OptionSome(build.val[key])
           /\ \E other \in DOMAIN build.val :
                  /\ build.val[other] # build.val[key]
                  /\ MemberGet(members[1], other) = LookupSome(build.val[other])

\* C18 as stated: right after force_insert(key, v) the cascade's get(key) is
\* Some(v) or None, and when a member's mask_or_insert returned true that
\* member itself answers Some(v) for key.  The code violates this.
C18_ForceNeverWrong ==
    [][ last'.op = "force_insert" =>
          LET v == last'.value
              acc == { i \in 1 .. Len(members) :
                         MaskOrInsert(members[i], focus, v).ret }
          IN  /\ BFieldGet(members', focus) \in {OptionSome(v), OptionNone}
              /\ acc # {} => MemberGet(members'[SetMin(acc)], focus) = LookupSome(v) ]_vars

\* C18 amended: right after force_insert(key, v) every member before the one
\* whose mask_or_insert returned true is Indeterminate for key, and that member
\* answers Some(v) or Indeterminate; get(key) is Some(v) when it answers
\* Some(v), and None when no member returned true.
C18_ForceAmended ==
    [][ last'.op = "force_insert" =>
          LET v == last'.value
              acc == { i \in 1 .. Len(members) :
                         MaskOrInsert(members[i], focus, v).ret }
              upto == IF acc = {} THEN Len(members) ELSE SetMin(acc) - 1
          IN  /\ \A i \in 1 .. upto : MemberGet(members'[i], focus) = Indeterminate
              /\ acc = {} => BFieldGet(members', focus) = OptionNone
              /\ acc # {} =>
                     LET r == MemberGet(members'[SetMin(acc)], focus)
                     IN  /\ r \in {LookupSome(v), Indeterminate}
                         /\ r = LookupSome(v)
                                => BFieldGet(members', focus) = OptionSome(v) ]_vars

\* C18 witness: the primary refused the forced insert, the secondary took it
\* and answers for the key
C18_Witness ==
    /\ last.op = "force_insert" /\ last.ok
    /\ Len(members) > 1
    /\ MemberGet(members[1], focus) = Indeterminate
    /\ MemberGet(members[2], focus) = LookupSome(last.value)
    /\ BFieldGet(members, focus) = OptionSome(last.value)

\* C19 as stated: after a create within the preconditions (size > nu,
\* 0 < max_scaledown <= secondary_scaledown <= 1, s >= 1) the member sizes are
\* size_0 = size, size_n = trunc(max(size_{n-1} * beta, size * max_beta)), they
\* never increase, and every member has size_n > nu, so that the modulus
\* size_n - nu of marker_pos is positive.
C19_SecondarySizes ==
    (fs.created # <<>> /\ fs.opened = <<>>)
        => LET size == fs.created[2]
               args == fs.created[3]
               beta == args.secondary_scaledown
               max_beta == args.max_scaledown
           IN  /\ Len(members) = args.n_secondaries
               /\ members[1].size = size
               /\ \A n \in 2 .. Len(members) :
                      /\ members[n].size = Max((members[n - 1].size * beta[1]) \div beta[2],
                                               (size * max_beta[1]) \div max_beta[2])
                      /\ members[n].size <= members[n - 1].size
               /\ \A n \in 1 .. Len(members) : members[n].size > args.marker_width

=============================================================================
